---- MODULE Spec2Model ----
(***************************************************************************)
(* A model of the 2-D grid library of src/aoc/src/grid_2d.rs: the Coord    *)
(* vector type (i32 components), the eight-valued Dir enumeration and the  *)
(* generic Board<T> container.                                             *)
(*                                                                         *)
(* Every public function is a pure operator that returns a result record:  *)
(* Ok(v) when the Rust function returns v, Panic(msg) when it unwinds.     *)
(* Each specification applies the functions of one type to inputs drawn    *)
(* from bounded sets and records the call in `op` and its result in `ret`. *)
(***************************************************************************)
EXTENDS Integers, Sequences, FiniteSets, TLC

VARIABLES
    build,    \* "debug" (overflow checks on) or "release" (wrapping arithmetic)
    op,       \* the last call: [name, a, b]
    ret,      \* its result: Ok(value) or Panic(message)
    ctor,     \* the constructor call that built the board: [name, a, b]
    matrix,   \* Board::matrix, a sequence of rows
    writes,   \* history: cell index -> value of the last successful set there
    start,    \* the direction a rotation sequence started from
    dir,      \* the current direction
    trail     \* the rotations applied to start, oldest first

vars == <<build, op, ret, ctor, matrix, writes, start, dir, trail>>

(***************************************************************************)
(* Bounds of the model.                                                    *)
(***************************************************************************)
MaxAbs == 4        \* small coordinate components range over -MaxAbs..MaxAbs
MaxSize == 3       \* small wrap sizes range over 0..MaxSize
MaxCells == 6      \* boards have at most MaxCells cells
MaxSetCells == 4   \* boards that are mutated have at most MaxSetCells cells
MaxText == 4       \* input texts have at most MaxText characters
MaxTrail == 8      \* rotation sequences have at most MaxTrail steps

(***************************************************************************)
(* Results.                                                                *)
(***************************************************************************)
Ok(v) == [kind |-> "ok", val |-> v]
Panic(msg) == [kind |-> "panic", val |-> msg]
IsOk(r) == r.kind = "ok"
IsPanic(r) == r.kind = "panic"
\* r?.then(F): the first panic wins
Then(r, F(_)) == IF IsOk(r) THEN F(r.val) ELSE r

Call(name, a, b) == [name |-> name, a |-> a, b |-> b]
NoArg == <<>>

(***************************************************************************)
(* i32 arithmetic.  Coord is (i32, i32).  +, - and * panic on overflow     *)
(* when overflow checks are on (debug) and wrap otherwise (release); / and *)
(* % always panic on a zero divisor and on MIN / -1.  No intermediate      *)
(* value below leaves the 32-bit range.                                    *)
(***************************************************************************)
I32Max == 2147483647
I32Min == -I32Max - 1

AddOverflows(a, b) ==
    \/ b >= 0 /\ a > I32Max - b
    \/ b < 0 /\ a < I32Min - b

\* a + b modulo 2^32, as a signed value
WrapAdd(a, b) ==
    IF b >= 0 /\ a > I32Max - b THEN (a - I32Max - 1) + (b - I32Max - 1)
    ELSE IF b < 0 /\ a < I32Min - b THEN (a + I32Max + 1) + (b + I32Max + 1)
    ELSE a + b

\* -a modulo 2^32
WrapNeg(a) == IF a = I32Min THEN I32Min ELSE -a

i32_add(a, b) ==
    IF AddOverflows(a, b)
    THEN IF build = "debug" THEN Panic("attempt to add with overflow")
                            ELSE Ok(WrapAdd(a, b))
    ELSE Ok(a + b)

i32_sub(a, b) ==
    IF b = I32Min
    THEN IF a >= 0
         THEN IF build = "debug" THEN Panic("attempt to subtract with overflow")
                                 ELSE Ok(WrapAdd(a, I32Min))
         ELSE Ok(a - b)
    ELSE IF AddOverflows(a, -b)
         THEN IF build = "debug" THEN Panic("attempt to subtract with overflow")
                                 ELSE Ok(WrapAdd(a, -b))
         ELSE Ok(a - b)

i32_abs(a) ==
    IF a = I32Min
    THEN IF build = "debug" THEN Panic("attempt to negate with overflow")
                            ELSE Ok(I32Min)
    ELSE Ok(IF a < 0 THEN -a ELSE a)

\* a - trunc(a / b) * b for b # 0 and (a, b) # (MIN, -1): the sign follows a
TruncRem(a, b) ==
    IF b = I32Min THEN (IF a = I32Min THEN 0 ELSE a)
    ELSE LET m == IF b < 0 THEN -b ELSE b
             f == a % m
         IN IF a < 0 /\ f # 0 THEN f - m ELSE f

\* trunc(a / b) for b # 0 and (a, b) # (MIN, -1)
TruncDiv(a, b) ==
    IF b = I32Min THEN (IF a = I32Min THEN 1 ELSE 0)
    ELSE LET m == IF b < 0 THEN -b ELSE b
             q == (a - TruncRem(a, b)) \div m
         IN IF b < 0 THEN -q ELSE q

i32_rem(a, b) ==
    IF b = 0 THEN Panic("attempt to calculate the remainder with a divisor of zero")
    ELSE IF a = I32Min /\ b = -1
         THEN Panic("attempt to calculate the remainder with overflow")
    ELSE Ok(TruncRem(a, b))

i32_div(a, b) ==
    IF b = 0 THEN Panic("attempt to divide by zero")
    ELSE IF a = I32Min /\ b = -1 THEN Panic("attempt to divide with overflow")
    ELSE Ok(TruncDiv(a, b))

\* acc + a * b modulo 2^32 by doubling, for b >= 0
RECURSIVE WrapMulAcc(_, _, _)
WrapMulAcc(a, b, acc) ==
    IF b = 0 THEN acc
    ELSE WrapMulAcc(WrapAdd(a, a), b \div 2,
                    IF b % 2 = 1 THEN WrapAdd(acc, a) ELSE acc)

WrapMulNat(a, b) == WrapMulAcc(a, b, 0)

WrapMul(a, b) ==
    IF b >= 0 THEN WrapMulNat(a, b)
    ELSE IF b = I32Min THEN (IF a % 2 = 0 THEN 0 ELSE I32Min)
    ELSE WrapNeg(WrapMulNat(a, -b))

MulOverflows(a, b) ==
    IF a = 0 \/ b = 0 THEN FALSE
    ELSE IF a = -1 THEN b = I32Min
    ELSE IF b = -1 THEN a = I32Min
    ELSE IF a = I32Min THEN b # 1
    ELSE IF b = I32Min THEN a # 1
    ELSE LET x == IF a < 0 THEN -a ELSE a
             y == IF b < 0 THEN -b ELSE b
         IN IF (a < 0) = (b < 0) THEN x > I32Max \div y
            ELSE \* the product is negative: the limit is 2^31
                 x > I32Max \div y /\ ~(x = 1 + I32Max \div y /\ (I32Max % y) = y - 1)

i32_mul(a, b) ==
    IF MulOverflows(a, b)
    THEN IF build = "debug" THEN Panic("attempt to multiply with overflow")
                            ELSE Ok(WrapMul(a, b))
    ELSE Ok(a * b)

(***************************************************************************)
(* num::Integer::gcd for i32 (Stein's algorithm), which simplify calls.    *)
(***************************************************************************)
RECURSIVE trailing_zeros(_)
trailing_zeros(x) == IF x % 2 = 1 THEN 0 ELSE 1 + trailing_zeros(x \div 2)

RECURSIVE Shl1(_)
\* 1 << k as an i32: 1 << 31 is MIN
Shl1(k) == IF k = 0 THEN 1 ELSE IF k = 31 THEN I32Min ELSE 2 * Shl1(k - 1)

\* x >> trailing_zeros(x) for x > 0
OddPart(x) == x \div Shl1(trailing_zeros(x))

RECURSIVE SteinLoop(_, _)
SteinLoop(m, n) ==
    IF m = n THEN m
    ELSE IF m > n THEN SteinLoop(OddPart(m - n), n)
    ELSE SteinLoop(m, OddPart(n - m))

gcd(m, n) ==
    IF m = 0 \/ n = 0 THEN i32_abs(IF m = 0 THEN n ELSE m)
    ELSE LET tm == trailing_zeros(m)
             tn == trailing_zeros(n)
             shift == IF tm < tn THEN tm ELSE tn
         IN IF m = I32Min \/ n = I32Min THEN i32_abs(Shl1(shift))
            ELSE LET am == IF m < 0 THEN -m ELSE m
                     an == IF n < 0 THEN -n ELSE n
                 IN Ok(SteinLoop(OddPart(am), OddPart(an)) * Shl1(shift))

(***************************************************************************)
(* Coord: a pair <<row, col>> of i32.                                      *)
(***************************************************************************)
simplify(c) ==
    Then(gcd(c[1], c[2]), LAMBDA g:
    Then(i32_div(c[1], g), LAMBDA r:
    Then(i32_div(c[2], g), LAMBDA k: Ok(<<r, k>>))))

wrap_to_size(c, size) ==
    LET fold(x, n) ==
            Then(i32_rem(x, n), LAMBDA r1:
            Then(i32_add(r1, n), LAMBDA r2: i32_rem(r2, n)))
    IN Then(fold(c[1], size[1]), LAMBDA row:
       Then(fold(c[2], size[2]), LAMBDA col: Ok(<<row, col>>)))

\* impl Mul<i32> for Coord
mul(c, rhs) ==
    Then(i32_mul(c[1], rhs), LAMBDA r:
    Then(i32_mul(c[2], rhs), LAMBDA k: Ok(<<r, k>>)))

(***************************************************************************)
(* Dir: the closed enumeration of the eight compass directions.            *)
(***************************************************************************)
Dir == {"North", "NorthEast", "East", "SouthEast",
        "South", "SouthWest", "West", "NorthWest"}

\* impl Add<Dir> for &Coord
add_dir(c, rhs) ==
    CASE rhs = "North"     -> Then(i32_sub(c[1], 1), LAMBDA r: Ok(<<r, c[2]>>))
      [] rhs = "NorthEast" -> Then(i32_sub(c[1], 1), LAMBDA r:
                              Then(i32_add(c[2], 1), LAMBDA k: Ok(<<r, k>>)))
      [] rhs = "East"      -> Then(i32_add(c[2], 1), LAMBDA k: Ok(<<c[1], k>>))
      [] rhs = "SouthEast" -> Then(i32_add(c[1], 1), LAMBDA r:
                              Then(i32_add(c[2], 1), LAMBDA k: Ok(<<r, k>>)))
      [] rhs = "South"     -> Then(i32_add(c[1], 1), LAMBDA r: Ok(<<r, c[2]>>))
      [] rhs = "SouthWest" -> Then(i32_add(c[1], 1), LAMBDA r:
                              Then(i32_sub(c[2], 1), LAMBDA k: Ok(<<r, k>>)))
      [] rhs = "West"      -> Then(i32_sub(c[2], 1), LAMBDA k: Ok(<<c[1], k>>))
      [] rhs = "NorthWest" -> Then(i32_sub(c[1], 1), LAMBDA r:
                              Then(i32_sub(c[2], 1), LAMBDA k: Ok(<<r, k>>)))

InvalidDirection == Panic("Invalid direction vector")

dir_from_match(s) ==
    CASE s = <<-1, 0>>  -> Ok("North")
      [] s = <<-1, 1>>  -> Ok("NorthEast")
      [] s = <<0, 1>>   -> Ok("East")
      [] s = <<1, 1>>   -> Ok("SouthEast")
      [] s = <<1, 0>>   -> Ok("South")
      [] s = <<1, -1>>  -> Ok("SouthWest")
      [] s = <<0, -1>>  -> Ok("West")
      [] s = <<-1, -1>> -> Ok("NorthWest")
      [] OTHER          -> InvalidDirection

\* impl From<Coord> for Dir
dir_from(coord) == Then(simplify(coord), dir_from_match)

(***************************************************************************)
(* The Coord specification: the Coord functions applied to every input of  *)
(* CoordInputs, in either build.                                           *)
(***************************************************************************)
I32Vals == (-MaxAbs .. MaxAbs) \cup {I32Min, I32Min + 1, I32Max}
CoordInputs == I32Vals \X I32Vals
SizeVals == (0 .. MaxSize) \cup {I32Max}
SizeInputs == SizeVals \X SizeVals
Scalars == (0 .. MaxAbs) \cup {I32Max}

NoBoard == <<>>
Rotations == {"rotate_right", "rotate_left", "rotate_right_45",
              "rotate_left_45", "rotate_180"}
\* trail counts, for every rotation, how often it was applied to start
NoTrail == [r \in Rotations |-> 0]
NoWrites == <<>>

InitCoord ==
    /\ build \in {"debug", "release"}
    /\ op = Call("none", NoArg, NoArg)
    /\ ret = Ok(NoArg)
    /\ ctor = Call("none", NoArg, NoArg)
    /\ matrix = NoBoard
    /\ writes = NoWrites
    /\ start = "North"
    /\ dir = "North"
    /\ trail = NoTrail

NoCallYet == op.name = "none"

\* one call per run: the call is made in the initial state
Pure(name, a, b, r) ==
    /\ NoCallYet
    /\ op' = Call(name, a, b)
    /\ ret' = r
    /\ UNCHANGED <<build, ctor, matrix, writes, start, dir, trail>>

Simplify(c) == Pure("simplify", c, NoArg, simplify(c))
WrapToSize(c, size) == Pure("wrap_to_size", c, size, wrap_to_size(c, size))
Mul(c, k) == Pure("mul", c, k, mul(c, k))
AddDir(c, d) == Pure("add_dir", c, d, add_dir(c, d))
DirFrom(c) == Pure("dir_from", c, NoArg, dir_from(c))

NextCoord ==
    \/ NoCallYet /\ \E c \in CoordInputs : Simplify(c)
    \/ NoCallYet /\ \E c \in CoordInputs, sz \in SizeInputs : WrapToSize(c, sz)
    \/ NoCallYet /\ \E c \in CoordInputs, k \in Scalars : Mul(c, k)
    \/ NoCallYet /\ \E c \in CoordInputs, d \in Dir : AddDir(c, d)
    \/ NoCallYet /\ \E c \in CoordInputs : DirFrom(c)

SpecCoord == InitCoord /\ [][NextCoord]_vars

(***************************************************************************)
(* Dir: rotation and angle tables.                                         *)
(***************************************************************************)
rotate_rightSlip(d) ==
    CASE d = "North"     -> "East"
      [] d = "NorthEast" -> "SouthEast"
      [] d = "East"      -> "South"
      [] d = "SouthEast" -> "SouthWest"
      [] d = "South"     -> "West"
      [] d = "SouthWest" -> "NorthWest"
      [] d = "West"      -> "South"
      [] d = "NorthWest" -> "NorthEast"

rotate_right(d) ==
    CASE d = "North"     -> "East"
      [] d = "NorthEast" -> "SouthEast"
      [] d = "East"      -> "South"
      [] d = "SouthEast" -> "SouthWest"
      [] d = "South"     -> "West"
      [] d = "SouthWest" -> "NorthWest"
      [] d = "West"      -> "North"
      [] d = "NorthWest" -> "NorthEast"

rotate_left(d) ==
    CASE d = "North"     -> "West"
      [] d = "NorthEast" -> "NorthWest"
      [] d = "East"      -> "North"
      [] d = "SouthEast" -> "NorthEast"
      [] d = "South"     -> "East"
      [] d = "SouthWest" -> "SouthEast"
      [] d = "West"      -> "South"
      [] d = "NorthWest" -> "SouthWest"

rotate_right_45(d) ==
    CASE d = "North"     -> "NorthEast"
      [] d = "NorthEast" -> "East"
      [] d = "East"      -> "SouthEast"
      [] d = "SouthEast" -> "South"
      [] d = "South"     -> "SouthWest"
      [] d = "SouthWest" -> "West"
      [] d = "West"      -> "NorthWest"
      [] d = "NorthWest" -> "North"

\* rotate_left_45 with the West arm copied from the South arm
rotate_left_45Slip(d) ==
    CASE d = "North"     -> "NorthWest"
      [] d = "NorthEast" -> "North"
      [] d = "East"      -> "NorthEast"
      [] d = "SouthEast" -> "East"
      [] d = "South"     -> "SouthEast"
      [] d = "SouthWest" -> "South"
      [] d = "West"      -> "SouthEast"
      [] d = "NorthWest" -> "West"

rotate_left_45(d) ==
    CASE d = "North"     -> "NorthWest"
      [] d = "NorthEast" -> "North"
      [] d = "East"      -> "NorthEast"
      [] d = "SouthEast" -> "East"
      [] d = "South"     -> "SouthEast"
      [] d = "SouthWest" -> "South"
      [] d = "West"      -> "SouthWest"
      [] d = "NorthWest" -> "West"

rotate_180(d) ==
    CASE d = "North"     -> "South"
      [] d = "NorthEast" -> "SouthWest"
      [] d = "East"      -> "West"
      [] d = "SouthEast" -> "NorthWest"
      [] d = "South"     -> "North"
      [] d = "SouthWest" -> "NorthEast"
      [] d = "West"      -> "East"
      [] d = "NorthWest" -> "SouthEast"

to_degrees(d) ==
    CASE d = "North"     -> 0
      [] d = "NorthEast" -> 45
      [] d = "East"      -> 90
      [] d = "SouthEast" -> 135
      [] d = "South"     -> 180
      [] d = "SouthWest" -> 225
      [] d = "West"      -> 270
      [] d = "NorthWest" -> 315

Unimplemented == Panic("not implemented: Only defined for cardinal directions")

\* not_backwards with the East arm copied from the North arm
not_backwardsSlip(d) ==
    CASE d = "North" -> Ok(<<"North", "East", "West">>)
      [] d = "East"  -> Ok(<<"North", "East", "West">>)
      [] d = "South" -> Ok(<<"East", "South", "West">>)
      [] d = "West"  -> Ok(<<"North", "South", "West">>)
      [] OTHER       -> Unimplemented

not_backwards(d) ==
    CASE d = "North" -> Ok(<<"North", "East", "West">>)
      [] d = "East"  -> Ok(<<"North", "East", "South">>)
      [] d = "South" -> Ok(<<"East", "South", "West">>)
      [] d = "West"  -> Ok(<<"North", "South", "West">>)
      [] OTHER       -> Unimplemented

\* Dir::cardinal
cardinal == <<"North", "East", "South", "West">>

\* the normalisation with `diff < -180` and without the final special case
offset_fromNoTieBreak(self, other) ==
    LET diff0 == to_degrees(self) - to_degrees(other)
    IN IF diff0 > 180 THEN diff0 - 360
       ELSE IF diff0 < -180 THEN diff0 + 360
       ELSE diff0

offset_from(self, other) ==
    LET self_degrees == to_degrees(self)
        other_degrees == to_degrees(other)
        diff0 == self_degrees - other_degrees
        diff == IF diff0 > 180 THEN diff0 - 360
                ELSE IF diff0 <= -180 THEN diff0 + 360
                ELSE diff0
    IN IF diff = -180 THEN 180 ELSE diff

(***************************************************************************)
(* The Dir specification: a direction is drawn, rotations are applied to   *)
(* it one after the other, and the angle functions are queried.            *)
(***************************************************************************)
RECURSIVE SumCounts(_, _)
SumCounts(t, rs) ==
    IF rs = {} THEN 0
    ELSE LET r == CHOOSE x \in rs : TRUE IN t[r] + SumCounts(t, rs \ {r})
Steps(t) == SumCounts(t, Rotations)
Only(r, n) == [x \in Rotations |-> IF x = r THEN n ELSE 0]

\* the Dir functions do no arithmetic that can overflow: one build stands for both
InitDir ==
    /\ build = "debug"
    /\ op = Call("none", NoArg, NoArg)
    /\ ret = Ok(NoArg)
    /\ ctor = Call("none", NoArg, NoArg)
    /\ matrix = NoBoard
    /\ writes = NoWrites
    /\ start \in Dir
    /\ dir = start
    /\ trail = NoTrail

IsRotation(name) == name \in Rotations \cup {"none"}

Rotate(name, d) ==
    /\ IsRotation(op.name)
    /\ Steps(trail) < MaxTrail
    /\ dir' = d
    /\ trail' = [trail EXCEPT ![name] = @ + 1]
    /\ op' = Call(name, dir, NoArg)
    /\ ret' = Ok(d)
    /\ UNCHANGED <<build, ctor, matrix, writes, start>>

RotateRight == Rotate("rotate_right", rotate_right(dir))
RotateLeft == Rotate("rotate_left", rotate_left(dir))
RotateRight45 == Rotate("rotate_right_45", rotate_right_45(dir))
RotateLeft45 == Rotate("rotate_left_45", rotate_left_45(dir))
Rotate180 == Rotate("rotate_180", rotate_180(dir))

DirQuery(name, b, r) ==
    /\ IsRotation(op.name)
    /\ op' = Call(name, dir, b)
    /\ ret' = Ok(r)
    /\ UNCHANGED <<build, ctor, matrix, writes, start, dir, trail>>

ToDegrees == DirQuery("to_degrees", NoArg, to_degrees(dir))
OffsetFrom(other) == DirQuery("offset_from", other, offset_from(dir, other))

NotBackwards ==
    /\ IsRotation(op.name)
    /\ op' = Call("not_backwards", dir, NoArg)
    /\ ret' = not_backwards(dir)
    /\ UNCHANGED <<build, ctor, matrix, writes, start, dir, trail>>

NextDir ==
    \/ RotateRight
    \/ RotateLeft
    \/ RotateRight45
    \/ RotateLeft45
    \/ Rotate180
    \/ ToDegrees
    \/ NotBackwards
    \/ \E other \in Dir : OffsetFrom(other)

SpecDir == InitDir /\ [][NextDir]_vars

(***************************************************************************)
(* Board<T>: matrix is a sequence of rows, each a sequence of elements.    *)
(* Coordinates are 0-based, sequences 1-based.  Option<T> is <<>> (None)   *)
(* or <<v>> (Some(v)).                                                     *)
(***************************************************************************)
None == <<>>
Some(v) == <<v>>
IndexPanic == Panic("index out of bounds")

\* Board::new
new(m) == m

\* Board::from_size: (0..size.0) and (0..size.1) are empty for a size <= 0
from_size(size, item) ==
    [i \in 1 .. (IF size[1] > 0 THEN size[1] ELSE 0) |->
        [j \in 1 .. (IF size[2] > 0 THEN size[2] ELSE 0) |-> item]]

\* str::lines: the text is cut at every "\n"; a final empty piece is no line
RECURSIVE SplitAcc(_, _, _, _)
SplitAcc(input, k, cur, out) ==
    IF k > Len(input) THEN Append(out, cur)
    ELSE IF input[k] = "\n" THEN SplitAcc(input, k + 1, <<>>, Append(out, cur))
    ELSE SplitAcc(input, k + 1, Append(cur, input[k]), out)

lines(input) ==
    LET parts == SplitAcc(input, 1, <<>>, <<>>)
    IN IF parts[Len(parts)] = <<>> THEN SubSeq(parts, 1, Len(parts) - 1)
       ELSE parts

\* Board::transform_from_str
transform_from_str(input, transform) ==
    LET ls == lines(input)
    IN [i \in 1 .. Len(ls) |-> [j \in 1 .. Len(ls[i]) |-> transform[ls[i][j]]]]

\* Board<char>::from_str
from_str(input) == lines(input)

\* Board::size
size(m) == IF Len(m) = 0 THEN IndexPanic ELSE Ok(<<Len(m), Len(m[1])>>)

\* Board::get
get(m, c) ==
    Then(size(m), LAMBDA sz:
        IF c[1] < 0 \/ c[1] >= sz[1] \/ c[2] < 0 \/ c[2] >= sz[2]
        THEN Ok(None)
        ELSE IF c[2] >= Len(m[c[1] + 1]) THEN IndexPanic
        ELSE Ok(Some(m[c[1] + 1][c[2] + 1])))

\* Board::get_unchecked
get_unchecked(m, c) ==
    Then(get(m, c), LAMBDA o:
        IF o = None THEN Panic("called Option::unwrap() on a None value")
        ELSE Ok(o[1]))

\* the cells <<i, j, item>> of row i (1-based row, 0-based coordinates)
RowCells(m, i) == [j \in 1 .. Len(m[i]) |-> <<i - 1, j - 1, m[i][j]>>]

\* the cells in the order of the nested iteration: row by row
RECURSIVE Scan(_, _, _)
Scan(m, i, out) ==
    IF i > Len(m) THEN out ELSE Scan(m, i + 1, out \o RowCells(m, i))

CoordsOf(cells) == [k \in 1 .. Len(cells) |-> <<cells[k][1], cells[k][2]>>]

\* find that emits (j, i) instead of (i, j)
findSwapped(m, elem) ==
    LET hits == SelectSeq(Scan(m, 1, <<>>), LAMBDA t : t[3] = elem)
    IN Ok([k \in 1 .. Len(hits) |-> <<hits[k][2], hits[k][1]>>])

\* Board::find
find(m, elem) ==
    Ok(CoordsOf(SelectSeq(Scan(m, 1, <<>>), LAMBDA t : t[3] = elem)))

\* Board::set
setWholeRow(m, c, val) ==
    IF c[1] < 0 \/ c[1] >= Len(m) THEN IndexPanic
    ELSE IF c[2] < 0 \/ c[2] >= Len(m[c[1] + 1]) THEN IndexPanic
    ELSE Ok([m EXCEPT ![c[1] + 1] = [j \in 1 .. Len(@) |-> val]])

set(m, c, val) ==
    IF c[1] < 0 \/ c[1] >= Len(m) THEN IndexPanic
    ELSE IF c[2] < 0 \/ c[2] >= Len(m[c[1] + 1]) THEN IndexPanic
    ELSE Ok([m EXCEPT ![c[1] + 1][c[2] + 1] = val])

\* the empty HashMap
EmptyMap == [x \in {} |-> <<>>]

\* result.entry(item).or_insert_with(Vec::new).push(coord)
Push(result, item, coord) ==
    IF item \in DOMAIN result THEN [result EXCEPT ![item] = Append(@, coord)]
    ELSE [x \in DOMAIN result \cup {item} |->
            IF x = item THEN <<coord>> ELSE result[x]]

\* a filter is the set of the elements it accepts
RECURSIVE Group(_, _, _, _)
Group(cells, k, filter, result) ==
    IF k > Len(cells) THEN result
    ELSE LET t == cells[k]
         IN IF t[3] \notin filter THEN Group(cells, k + 1, filter, result)
            ELSE Group(cells, k + 1, filter,
                       Push(result, t[3], <<t[1], t[2]>>))

\* find_positions that groups every cell, whatever the filter says
find_positionsUnfiltered(m, filter) ==
    LET cells == Scan(m, 1, <<>>)
    IN Ok(Group(cells, 1, {cells[k][3] : k \in 1 .. Len(cells)}, EmptyMap))

\* Board::find_positions
find_positions(m, filter) == Ok(Group(Scan(m, 1, <<>>), 1, filter, EmptyMap))

\* Board::positions
positions(m) == Ok(CoordsOf(Scan(m, 1, <<>>)))

(***************************************************************************)
(* The Board specification: a board is built by one of the four            *)
(* constructors and then queried.                                          *)
(***************************************************************************)
Cells == {"Rock", "Empty", "Sand"}
Chars == {"R", "."}
TextChars == Chars \cup {"\n"}
Texts == UNION {[1 .. n -> TextChars] : n \in 0 .. MaxText}
Transforms == [Chars -> Cells]

\* the sizes (rows, cols), negative ones included, of boards of at most n cells
Sizes(n) == {sz \in (-1 .. n) \X (-1 .. n) : sz[1] * sz[2] <= n}

\* the rectangular matrices: Board::new's caller guarantees rectangularity
Matrices ==
    UNION {[1 .. sz[1] -> [1 .. sz[2] -> Cells]] :
              sz \in {x \in Sizes(MaxCells) : x[1] >= 0 /\ x[2] >= 0}}

BoardSizes == Sizes(MaxCells)

\* the coordinates on the current board and those just outside of it
RECURSIVE Widest(_, _)
Widest(m, i) ==
    IF i > Len(m) THEN 0
    ELSE LET w == Widest(m, i + 1) IN IF Len(m[i]) > w THEN Len(m[i]) ELSE w
QueryCoords == (-1 .. Len(matrix)) \X (-1 .. Widest(matrix, 1))

\* the values T of the current board's elements
Elems == IF ctor.name = "from_str" THEN Chars ELSE Cells

\* the Board functions do no arithmetic that can overflow: one build stands
\* for both
Init ==
    /\ build = "debug"
    /\ op = Call("none", NoArg, NoArg)
    /\ ret = Ok(NoArg)
    /\ ctor = Call("none", NoArg, NoArg)
    /\ matrix = NoBoard
    /\ writes = NoWrites
    /\ start = "North"
    /\ dir = "North"
    /\ trail = NoTrail

Unbuilt == ctor.name = "none"

Construct(name, a, b, m) ==
    /\ Unbuilt
    /\ ctor' = Call(name, a, b)
    /\ op' = Call(name, a, b)
    /\ ret' = Ok(NoArg)
    /\ matrix' = m
    /\ UNCHANGED <<build, writes, start, dir, trail>>

New(m) == Construct("new", m, NoArg, new(m))
FromSize(sz, item) == Construct("from_size", sz, item, from_size(sz, item))
FromStr(input) == Construct("from_str", input, NoArg, from_str(input))
TransformFromStr(input, transform) ==
    Construct("transform_from_str", input, transform,
              transform_from_str(input, transform))

\* a query is made on the board as it was built
Query(name, a, r) ==
    /\ ctor.name # "none"
    /\ op.name = ctor.name
    /\ op' = Call(name, a, NoArg)
    /\ ret' = r
    /\ UNCHANGED <<build, ctor, matrix, writes, start, dir, trail>>

Size == Query("size", NoArg, size(matrix))
Get(c) == Query("get", c, get(matrix, c))
GetUnchecked(c) == Query("get_unchecked", c, get_unchecked(matrix, c))
Find(elem) == Query("find", elem, find(matrix, elem))
FindPositions(filter) ==
    Query("find_positions", filter, find_positions(matrix, filter))
Positions == Query("positions", NoArg, positions(matrix))

Next ==
    \/ Unbuilt /\ \E m \in Matrices : New(m)
    \/ Unbuilt /\ \E sz \in BoardSizes, item \in Cells : FromSize(sz, item)
    \/ Unbuilt /\ \E input \in Texts : FromStr(input)
    \/ Unbuilt /\ \E input \in Texts, transform \in Transforms :
                      TransformFromStr(input, transform)
    \/ Size
    \/ \E c \in QueryCoords : Get(c)
    \/ \E c \in QueryCoords : GetUnchecked(c)
    \/ \E elem \in Elems : Find(elem)
    \/ \E filter \in SUBSET Elems : FindPositions(filter)
    \/ Positions

Spec == Init /\ [][Next]_vars

(***************************************************************************)
(* The Set specification: a board is built by from_size and then mutated   *)
(* by a sequence of set calls; writes remembers the last value that a      *)
(* successful set stored in each cell.                                     *)
(***************************************************************************)
SetSizes == Sizes(MaxSetCells)
SetCoords == QueryCoords

Set(c, val) ==
    /\ ctor.name = "from_size"
    /\ IsOk(ret)
    /\ LET r == set(matrix, c, val)
       IN /\ op' = Call("set", c, val)
          /\ ret' = IF IsOk(r) THEN Ok(NoArg) ELSE r
          /\ matrix' = IF IsOk(r) THEN r.val ELSE matrix
          /\ writes' = IF IsOk(r)
                       THEN [x \in DOMAIN writes \cup {c} |->
                               IF x = c THEN val ELSE writes[x]]
                       ELSE writes
    /\ UNCHANGED <<build, ctor, start, dir, trail>>

NextSet ==
    \/ Unbuilt /\ \E sz \in SetSizes, item \in Cells : FromSize(sz, item)
    \/ \E c \in SetCoords, val \in Cells : Set(c, val)

SpecSet == Init /\ [][NextSet]_vars

(***************************************************************************)
(* Properties.                                                             *)
(***************************************************************************)
\* the coordinates of the cells that matrix holds
CellsOfMatrix ==
    UNION {{<<i - 1, j - 1>> : j \in 1 .. Len(matrix[i])} : i \in 1 .. Len(matrix)}
At(c) == matrix[c[1] + 1][c[2] + 1]

\* a comes before b in row-major order
Before(a, b) == a[1] < b[1] \/ (a[1] = b[1] /\ a[2] < b[2])

\* listing enumerates the set S of coordinates, each once, in row-major order
RowMajorListing(listing, S) ==
    /\ {listing[k] : k \in 1 .. Len(listing)} = S
    /\ Len(listing) = Cardinality(S)
    /\ \A k \in 1 .. Len(listing) - 1 : Before(listing[k], listing[k + 1])

\* C1: get never panics: on every board built by a constructor it returns
\* the element at (c.0, c.1) when 0 <= c.0 < rows and 0 <= c.1 < cols, and
\* None otherwise.
C1_GetNeverPanics ==
    op.name = "get" =>
        LET c == op.a
            rows == Len(matrix)
            cols == IF rows = 0 THEN 0 ELSE Len(matrix[1])
        IN /\ IsOk(ret)
           /\ ret.val = IF 0 <= c[1] /\ c[1] < rows /\ 0 <= c[2] /\ c[2] < cols
                        THEN Some(At(c)) ELSE None

\* C2: simplify of the zero vector (0,0) returns (0,0) and does not fail.
C2_SimplifyZeroIsIdentity ==
    (op.name = "simplify" /\ op.a = <<0, 0>>) => (IsOk(ret) /\ ret.val = <<0, 0>>)

\* the mathematical gcd of two naturals, not both 0
RECURSIVE Euclid(_, _)
Euclid(a, b) == IF b = 0 THEN a ELSE Euclid(b, a % b)

Magnitude(x) == IF x < 0 THEN -x ELSE x

\* c divided componentwise by gcd(|c.0|, |c.1|), for c # (0,0); while both
\* components are even the common factor 2 is taken out first, so that the
\* magnitudes fit
RECURSIVE LowestTerms(_)
LowestTerms(c) ==
    IF c[1] % 2 = 0 /\ c[2] % 2 = 0
    THEN LowestTerms(<<c[1] \div 2, c[2] \div 2>>)
    ELSE IF c[1] = I32Min \/ c[2] = I32Min THEN c
    ELSE LET g == Euclid(Magnitude(c[1]), Magnitude(c[2]))
         IN <<(IF c[1] < 0 THEN -1 ELSE 1) * (Magnitude(c[1]) \div g),
              (IF c[2] < 0 THEN -1 ELSE 1) * (Magnitude(c[2]) \div g)>>

Sign(x) == IF x < 0 THEN -1 ELSE IF x > 0 THEN 1 ELSE 0

\* C3: for every non-zero c, simplify returns c divided componentwise by
\* gcd(|c.0|, |c.1|); the components of the result share no factor above 1,
\* keep the signs of c's components, and simplifying again changes nothing.
C3_SimplifyLowestTerms ==
    (op.name = "simplify" /\ op.a # <<0, 0>>) =>
        /\ IsOk(ret)
        /\ ret.val = LowestTerms(op.a)
        /\ LowestTerms(ret.val) = ret.val
        /\ Sign(ret.val[1]) = Sign(op.a[1])
        /\ Sign(ret.val[2]) = Sign(op.a[2])
        /\ simplify(ret.val) = Ok(ret.val)

\* C4: for every c and every size with rows >= 1 and cols >= 1, wrap_to_size
\* returns (c.0 Euclidean-mod rows, c.1 Euclidean-mod cols): the result lies
\* in [0, rows) x [0, cols) and is c itself when c lies in that range.
C4_WrapToSizeEuclidean ==
    (op.name = "wrap_to_size" /\ op.b[1] >= 1 /\ op.b[2] >= 1) =>
        /\ IsOk(ret)
        /\ ret.val = <<op.a[1] % op.b[1], op.a[2] % op.b[2]>>
        /\ 0 <= ret.val[1] /\ ret.val[1] < op.b[1]
        /\ 0 <= ret.val[2] /\ ret.val[2] < op.b[2]
        /\ (/\ 0 <= op.a[1] /\ op.a[1] < op.b[1]
            /\ 0 <= op.a[2] /\ op.a[2] < op.b[2]) => ret.val = op.a

Opposite(a, b) == rotate_180(a) = b

\* C5: a.offset_from(b) lies in (-180, 180], is congruent modulo 360 to
\* a.to_degrees() - b.to_degrees(), and is +180 exactly when a and b are
\* opposite; North from East is -90, East from North 90, North from
\* NorthEast -45 and NorthEast from SouthWest 180.
C5_OffsetFromNormalised ==
    op.name = "offset_from" =>
        LET a == op.a
            b == op.b
        IN /\ ret.val > -180 /\ ret.val <= 180
           /\ (ret.val - (to_degrees(a) - to_degrees(b))) % 360 = 0
           /\ (ret.val = 180) <=> Opposite(a, b)
           /\ (a = "North" /\ b = "East") => ret.val = -90
           /\ (a = "East" /\ b = "North") => ret.val = 90
           /\ (a = "North" /\ b = "NorthEast") => ret.val = -45
           /\ (a = "NorthEast" /\ b = "SouthWest") => ret.val = 180

\* an antipodal pair whose raw difference is -180 was queried and gave +180
C5_Witness ==
    /\ op.name = "offset_from"
    /\ to_degrees(op.a) - to_degrees(op.b) = -180
    /\ ret.val = 180

\* C6: after any sequence of in-bounds set calls on a board created by
\* from_size(size, fill), the size is unchanged and every cell holds the
\* value of the last set addressed to it, or fill if it was never set.
C6_SetTouchesOneCell ==
    ctor.name = "from_size" =>
        LET rows == IF ctor.a[1] > 0 THEN ctor.a[1] ELSE 0
            cols == IF ctor.a[2] > 0 THEN ctor.a[2] ELSE 0
        IN /\ Len(matrix) = rows
           /\ \A i \in 1 .. rows :
                /\ Len(matrix[i]) = cols
                /\ \A j \in 1 .. cols :
                     matrix[i][j] = IF <<i - 1, j - 1>> \in DOMAIN writes
                                    THEN writes[<<i - 1, j - 1>>]
                                    ELSE ctor.b

\* a set has just overwritten a cell, another cell keeps an earlier write
\* and a third cell still holds the fill value
C6_Witness ==
    /\ ctor.name = "from_size"
    /\ op.name = "set"
    /\ IsOk(ret)
    /\ At(op.a) = op.b
    /\ op.b # ctor.b
    /\ \E c \in DOMAIN writes : c # op.a /\ At(c) \notin {op.b, ctor.b}
    /\ \E c \in CellsOfMatrix : c \notin DOMAIN writes /\ At(c) = ctor.b

\* C7: rotate_right applied four times, and rotate_right_45 applied eight
\* times, return the direction they started from, and rotate_left undoes
\* rotate_right in both orders.
C7_RotationClosure ==
    /\ trail = Only("rotate_right", 4) => dir = start
    /\ trail = Only("rotate_right_45", 8) => dir = start
    /\ (/\ trail = [NoTrail EXCEPT !["rotate_right"] = 1, !["rotate_left"] = 1]
        /\ op.name \in {"rotate_right", "rotate_left"}) => dir = start

\* the fourth rotate_right in a row was just applied to West
C7_Witness ==
    /\ trail = Only("rotate_right", 4)
    /\ op = Call("rotate_right", "West", NoArg)
    /\ dir = "North"

\* the unit displacement of d: Coord(0,0) + d
Unit(d) == add_dir(<<0, 0>>, d).val

\* v = (Coord(0,0) + d) * k for some k >= 1
IsMultipleOf(v, d) ==
    \E k \in {Magnitude(x) : x \in {v[1], v[2]} \ {0, I32Min}} :
        mul(Unit(d), k) = Ok(v)

\* C8: the conversion of v to a direction returns d whenever v is
\* (Coord(0,0) + d) * k with k >= 1, and fails with the invalid-direction
\* error for every other v.
C8_DirFromCoord ==
    op.name = "dir_from" =>
        IF \E d \in Dir : IsMultipleOf(op.a, d)
        THEN IsOk(ret) /\ IsMultipleOf(op.a, ret.val)
        ELSE ret = InvalidDirection

ExampleBoard == <<<<"Rock", "Empty", "Sand">>, <<"Empty", "Rock", "Empty">>>>
ExampleGroups ==
    [v \in {"Rock", "Sand"} |->
        IF v = "Rock" THEN <<<<0, 0>>, <<1, 1>>>> ELSE <<<<0, 2>>>>]

\* C9: find_positions(p) returns a mapping whose keys are exactly the
\* distinct cell values that satisfy p, and whose list for key v is exactly
\* the coordinates of the cells equal to v, each once, in row-major order;
\* the example board filtered by 'not Empty' yields Rock -> [(0,0),(1,1)]
\* and Sand -> [(0,2)].
C9_FindPositionsGroups ==
    op.name = "find_positions" =>
        /\ IsOk(ret)
        /\ DOMAIN ret.val = {At(c) : c \in {x \in CellsOfMatrix : At(x) \in op.a}}
        /\ \A v \in DOMAIN ret.val :
             RowMajorListing(ret.val[v], {c \in CellsOfMatrix : At(c) = v})
        /\ (matrix = ExampleBoard /\ op.a = {"Rock", "Sand"}) =>
             ret.val = ExampleGroups

\* the example board was filtered by 'not Empty'
C9_Witness ==
    /\ op.name = "find_positions"
    /\ matrix = ExampleBoard
    /\ op.a = {"Rock", "Sand"}
    /\ ret.val["Rock"] = <<<<0, 0>>, <<1, 1>>>>

\* C10: find(e) returns all and only the coordinates whose value equals e,
\* each exactly once, in row-major order, and the empty list when e does
\* not occur.
C10_FindRowMajor ==
    op.name = "find" =>
        /\ IsOk(ret)
        /\ RowMajorListing(ret.val, {c \in CellsOfMatrix : At(c) = op.a})
        /\ (\A c \in CellsOfMatrix : At(c) # op.a) => ret.val = <<>>

\* a value that occurs twice in one row and again in a later row was found
C10_Witness ==
    /\ op.name = "find"
    /\ Len(ret.val) >= 3
    /\ ret.val[1][1] = ret.val[2][1]
    /\ ret.val[3][1] > ret.val[2][1]
    /\ \E c \in CellsOfMatrix : At(c) # op.a

Cardinals == {cardinal[k] : k \in 1 .. Len(cardinal)}

\* C11: for each cardinal direction d, not_backwards returns exactly the 3
\* cardinal directions other than d.rotate_180(): d and its two 90-degree
\* rotations, never the opposite; for each diagonal direction the call fails
\* with the unimplemented signal.
C11_NotBackwards ==
    op.name = "not_backwards" =>
        IF op.a \in Cardinals
        THEN /\ IsOk(ret)
             /\ Len(ret.val) = 3
             /\ {ret.val[k] : k \in 1 .. 3} = Cardinals \ {rotate_180(op.a)}
             /\ {op.a, rotate_right(op.a), rotate_left(op.a)}
                    = {ret.val[k] : k \in 1 .. 3}
        ELSE ret = Unimplemented

\* not_backwards was called on East, reached by a rotation, and returned
\* three directions
C11_Witness ==
    /\ op = Call("not_backwards", "East", NoArg)
    /\ start # "East"
    /\ IsOk(ret)
    /\ Len(ret.val) = 3

\* the nominal clockwise angle of a rotation
Angle(r) ==
    CASE r = "rotate_right_45" -> 45
      [] r = "rotate_right"    -> 90
      [] r = "rotate_180"      -> 180
      [] r = "rotate_left"     -> 270
      [] r = "rotate_left_45"  -> 315

RECURSIVE SumAngles(_, _)
SumAngles(t, rs) ==
    IF rs = {} THEN 0
    ELSE LET r == CHOOSE x \in rs : TRUE
         IN t[r] * Angle(r) + SumAngles(t, rs \ {r})
TotalAngle(t) == SumAngles(t, Rotations)

\* C12: to_degrees of d.rotate_right_45(), d.rotate_right(), d.rotate_180(),
\* d.rotate_left() and d.rotate_left_45() is d.to_degrees() + 45, + 90,
\* + 180, + 270 and + 315 modulo 360; to_degrees is one-to-one from the 8
\* directions onto the multiples of 45 in [0, 360); hence after any sequence
\* of rotations the direction depends only on the total angle modulo 360.
C12_RotationsAgreeWithAngles ==
    /\ op.name \in Rotations =>
         to_degrees(ret.val) = (to_degrees(op.a) + Angle(op.name)) % 360
    /\ {to_degrees(d) : d \in Dir} = {45 * k : k \in 0 .. 7}
    /\ \A d, e \in Dir : to_degrees(d) = to_degrees(e) => d = e
    /\ to_degrees(dir) = (to_degrees(start) + TotalAngle(trail)) % 360

\* every rotation was applied at least once, the last one a rotate_left_45
\* of West, and the turns do not add up to a full circle
C12_Witness ==
    /\ \A r \in Rotations : trail[r] >= 1
    /\ op = Call("rotate_left_45", "West", NoArg)
    /\ dir = "SouthWest"
    /\ dir # start

====
